---- MODULE Spec2Model ----
(***************************************************************************)
(* Memory-manager shims of mpw-emu (src/src/emulator/mac_memory.rs).       *)
(*                                                                         *)
(* Guest memory is a byte array over the addresses 0 .. MemSize-1; every   *)
(* other 32-bit address is unmapped and faults.  A u32 is represented by   *)
(* the integer with the same 32-bit two's complement pattern, so the       *)
(* values 2^31 .. 2^32-1 appear as -2^31 .. -1; ULt, Add32, Sub32 and      *)
(* Carry32 are the unsigned operations on that representation.             *)
(*                                                                         *)
(* The heap (state.heap, OSErr) is not part of the two source files; it is *)
(* modelled from the specification (sections 3 and 4.1).                   *)
(***************************************************************************)
EXTENDS Integers, Sequences, FiniteSets, TLC

\* ---------------------------------------------------------------- bounds
MemSize == 32
HeapBase == 16
MaxOps == 2

\* ------------------------------------------------------------- constants
MaxI32 == 2147483647
CellSize == 4
NotEnoughMemory == -108

VARIABLES mem, blocks, checked, nops, call, ret, log, pre, heapcall

vars == <<mem, blocks, checked, nops, call, ret, log, pre, heapcall>>

\* ------------------------------------------------------- u32 arithmetic
\* a < b as unsigned 32-bit values
ULt(a, b) == IF (a < 0) = (b < 0) THEN a < b ELSE b < 0

\* the unsigned sum a + b does not fit in 32 bits
Carry32(a, b) ==
    IF a < 0 /\ b < 0 THEN TRUE
    ELSE IF a >= 0 /\ b >= 0 THEN FALSE
    ELSE a + b >= 0

\* a + b modulo 2^32
Add32(a, b) ==
    IF a >= 0 /\ b >= 0 /\ a > MaxI32 - b
        THEN (a - MaxI32 - 1) + (b - MaxI32 - 1)
    ELSE IF a < 0 /\ b < 0 /\ a < (-MaxI32 - 1) - b
        THEN (a + MaxI32 + 1) + (b + MaxI32 + 1)
    ELSE a + b

\* a - b modulo 2^32
Sub32(a, b) ==
    IF a >= 0 /\ b < 0 /\ a > MaxI32 + b
        THEN (a - MaxI32 - 1) - (b + MaxI32 + 1)
    ELSE IF a < 0 /\ b >= 0 /\ a < (-MaxI32 - 1) + b
        THEN (a + MaxI32 + 1) - (b - MaxI32 - 1)
    ELSE a - b

\* ---------------------------------------------------- guest memory access
Addrs == 0 .. (MemSize - 1)

\* the address is mapped
InRange(a) == a >= 0 /\ a < MemSize

\* read_u32: four bytes, big-endian
read_u32(m, a) ==
    LET b0 == m[a]
        b1 == m[a + 1]
        b2 == m[a + 2]
        b3 == m[a + 3]
    IN  (IF b0 >= 128 THEN b0 - 256 ELSE b0) * 16777216
            + b1 * 65536 + b2 * 256 + b3

\* write_u32: four bytes, big-endian
write_u32(m, a, v) ==
    LET hi == v \div 16777216
        lo == v % 16777216
    IN  [x \in DOMAIN m |->
            IF x = a THEN (IF hi < 0 THEN hi + 256 ELSE hi)
            ELSE IF x = a + 1 THEN lo \div 65536
            ELSE IF x = a + 2 THEN (lo \div 256) % 256
            ELSE IF x = a + 3 THEN lo % 256
            ELSE m[x]]

\* ------------------------------------------------------ handler results
RetNone == [kind |-> "None", val |-> 0]
RetSome(v) == [kind |-> "Some", val |-> v]
RetFault == [kind |-> "Err", val |-> 1]
RetHeapErr == [kind |-> "Err", val |-> 2]
RetPanic == [kind |-> "Panic", val |-> 0]

NoHeapCall == [res |-> "none", req |-> 0]

\* one outcome of a handler: the memory and block table it leaves, its
\* result, the guest accesses it made itself, and the resize it asked for
Outcome(m, bl, r, lg, hc) ==
    [mem |-> m, blocks |-> bl, ret |-> r, log |-> lg, heapcall |-> hc]

\* ------------------------------------------------------------ copy loops
\* for i in 0..len { uc.write_u8(dest + i, uc.read_u8(src + i)?)?; }
RECURSIVE CopyUp(_, _, _, _, _, _, _)
CopyUp(m, lg, src, dest, len, i, chk) ==
    IF ~ULt(i, len) THEN [mem |-> m, log |-> lg, st |-> "ok"]
    ELSE IF chk /\ (Carry32(dest, i) \/ Carry32(src, i))
        THEN [mem |-> m, log |-> lg, st |-> "panic"]
    ELSE
        LET d == Add32(dest, i)
            s == Add32(src, i)
        IN  IF ~InRange(s)
                THEN [mem |-> m, log |-> Append(lg, <<"r", s>>), st |-> "fault"]
            ELSE IF ~InRange(d)
                THEN [mem |-> m,
                      log |-> lg \o << <<"r", s>>, <<"w", d>> >>,
                      st |-> "fault"]
            ELSE CopyUp([m EXCEPT ![d] = m[s]],
                        lg \o << <<"r", s>>, <<"w", d>> >>,
                        src, dest, len, i + 1, chk)

\* for i in 0..len { let inv_i = len - 1 - i;
\*                   uc.write_u8(dest + inv_i, uc.read_u8(src + inv_i)?)?; }
RECURSIVE CopyDown(_, _, _, _, _, _, _)
CopyDown(m, lg, src, dest, len, i, chk) ==
    IF ~ULt(i, len) THEN [mem |-> m, log |-> lg, st |-> "ok"]
    ELSE
        LET inv_i == Sub32(Sub32(len, 1), i)
        IN  IF chk /\ (Carry32(dest, inv_i) \/ Carry32(src, inv_i))
                THEN [mem |-> m, log |-> lg, st |-> "panic"]
            ELSE
                LET d == Add32(dest, inv_i)
                    s == Add32(src, inv_i)
                IN  IF ~InRange(s)
                        THEN [mem |-> m, log |-> Append(lg, <<"r", s>>),
                              st |-> "fault"]
                    ELSE IF ~InRange(d)
                        THEN [mem |-> m,
                              log |-> lg \o << <<"r", s>>, <<"w", d>> >>,
                              st |-> "fault"]
                    ELSE CopyDown([m EXCEPT ![d] = m[s]],
                                  lg \o << <<"r", s>>, <<"w", d>> >>,
                                  src, dest, len, i + 1, chk)

\* the result a copy loop ends the handler with when it does not complete
CopyRet(st, done) ==
    IF st = "fault" THEN RetFault
    ELSE IF st = "panic" THEN RetPanic
    ELSE done

\* block_move_data with the test of the second branch dropped
block_move_data_always(m, bl, src, dest, len, chk) ==
    LET c == IF ULt(src, dest)
                THEN CopyUp(m, <<>>, src, dest, len, 0, chk)
                ELSE CopyDown(m, <<>>, src, dest, len, 0, chk)
    IN  {Outcome(c.mem, bl, CopyRet(c.st, RetNone), c.log, NoHeapCall)}

block_move_data(m, bl, src, dest, len, chk) ==
    LET c == IF ULt(src, dest)
                THEN CopyUp(m, <<>>, src, dest, len, 0, chk)
             ELSE IF ULt(dest, src)
                THEN CopyDown(m, <<>>, src, dest, len, 0, chk)
             ELSE [mem |-> m, log |-> <<>>, st |-> "ok"]
    IN  {Outcome(c.mem, bl, CopyRet(c.st, RetNone), c.log, NoHeapCall)}

\* ------------------------------------------------------------------ heap
\* A block is [base, size, kind, cell]: kind is "Movable" (cell is the
\* address of its Master Pointer Cell, which is the handle) or "Fixed"
\* (cell is 0, the pointer is base).  Blocks and cells are placed on
\* CellSize boundaries of the arena HeapBase .. MemSize-1; which free
\* place is taken is left open.
Arena == HeapBase .. (MemSize - 1)

Slots == {a \in Arena : (a - HeapBase) % CellSize = 0}

\* the bytes a block of this size keeps for itself (never none)
Extent(size) == IF size = 0 THEN 1 ELSE size

BlockBytes(b) == b.base .. (b.base + Extent(b.size) - 1)

CellBytes(b) ==
    IF b.kind = "Movable" THEN b.cell .. (b.cell + CellSize - 1) ELSE {}

Reserved(bl) == UNION {BlockBytes(b) \cup CellBytes(b) : b \in bl}

\* a block of `size` bytes can lie at a without touching a block of bl
Fits(bl, a, size) ==
    /\ size >= 0
    /\ size <= MemSize
    /\ \A x \in a .. (a + Extent(size) - 1) :
            x \in Arena /\ x \notin Reserved(bl)

\* block b of bl can have `size` bytes where it lies: the bytes are in the
\* arena and belong to no other block and to no cell, its own included
FitsInPlace(bl, b, size) ==
    /\ Fits(bl \ {b}, b.base, size)
    /\ \A x \in b.base .. (b.base + Extent(size) - 1) : x \notin CellBytes(b)

HandleBlocks(bl, h) == {b \in bl : b.kind = "Movable" /\ b.cell = h}

PtrBlocks(bl, p) == {b \in bl : b.kind = "Fixed" /\ b.base = p}

Handles(bl) == {b.cell : b \in {x \in bl : x.kind = "Movable"}}

Ptrs(bl) == {b.base : b \in {x \in bl : x.kind = "Fixed"}}

\* allocate_handle: a cell and a block; 0 when there is no room
heap_new_handle(m, bl, size) ==
    LET cands == {p \in Slots \X Slots :
                    /\ Fits(bl, p[1], CellSize)
                    /\ Fits(bl, p[2], size)
                    /\ (p[1] .. (p[1] + CellSize - 1))
                         \cap (p[2] .. (p[2] + Extent(size) - 1)) = {}}
    IN  IF cands = {} THEN {[mem |-> m, blocks |-> bl, val |-> 0]}
        ELSE {[mem |-> write_u32(m, p[1], p[2]),
               blocks |-> bl \cup {[base |-> p[2], size |-> size,
                                    kind |-> "Movable", cell |-> p[1]]},
               val |-> p[1]] : p \in cands}

\* allocate_pointer: a Fixed block; 0 when there is no room
heap_new_ptr(m, bl, size) ==
    LET cands == {a \in Slots : Fits(bl, a, size)}
    IN  IF cands = {} THEN {[mem |-> m, blocks |-> bl, val |-> 0]}
        ELSE {[mem |-> m,
               blocks |-> bl \cup {[base |-> a, size |-> size,
                                    kind |-> "Fixed", cell |-> 0]},
               val |-> a] : a \in cands}

\* dispose_handle / dispose_pointer: an untracked address is a fault
heap_dispose_handle(bl, h) ==
    IF HandleBlocks(bl, h) = {} THEN [st |-> "err", blocks |-> bl]
    ELSE [st |-> "ok", blocks |-> bl \ HandleBlocks(bl, h)]

heap_dispose_ptr(bl, p) ==
    IF PtrBlocks(bl, p) = {} THEN [st |-> "err", blocks |-> bl]
    ELSE [st |-> "ok", blocks |-> bl \ PtrBlocks(bl, p)]

heap_get_handle_size(bl, h) ==
    IF HandleBlocks(bl, h) = {} THEN [st |-> "err", val |-> 0]
    ELSE [st |-> "ok", val |-> (CHOOSE b \in HandleBlocks(bl, h) : TRUE).size]

heap_get_ptr_size(bl, p) ==
    IF PtrBlocks(bl, p) = {} THEN [st |-> "err", val |-> 0]
    ELSE [st |-> "ok", val |-> (CHOOSE b \in PtrBlocks(bl, p) : TRUE).size]

\* set_pointer_size: in place, or false with nothing changed
heap_set_ptr_size(m, bl, p, new_size) ==
    IF PtrBlocks(bl, p) = {} THEN {[mem |-> m, blocks |-> bl, res |-> "err"]}
    ELSE
        LET b == CHOOSE x \in PtrBlocks(bl, p) : TRUE
            others == bl \ {b}
        IN  IF FitsInPlace(bl, b, new_size)
                THEN {[mem |-> m,
                       blocks |-> others \cup {[b EXCEPT !.size = new_size]},
                       res |-> "true"]}
            ELSE {[mem |-> m, blocks |-> bl, res |-> "false"]}

\* the bytes of a relocated block copied to its new base, and the cell
\* rewritten
Relocate(m, b, a, new_size) ==
    LET keep == IF new_size < b.size THEN new_size ELSE b.size
        moved == [x \in DOMAIN m |->
                    IF x >= a /\ x < a + keep THEN m[b.base + (x - a)]
                    ELSE m[x]]
    IN  write_u32(moved, b.cell, a)

\* set_handle_size: in place when the block can stay, else relocated to
\* any free place, else false with nothing changed
heap_set_handle_size(m, bl, h, new_size) ==
    IF HandleBlocks(bl, h) = {} THEN {[mem |-> m, blocks |-> bl, res |-> "err"]}
    ELSE
        LET b == CHOOSE x \in HandleBlocks(bl, h) : TRUE
            others == bl \ {b}
            cands == {a \in Slots : Fits(bl, a, new_size)}
        IN  IF FitsInPlace(bl, b, new_size)
                THEN {[mem |-> m,
                       blocks |-> others \cup {[b EXCEPT !.size = new_size]},
                       res |-> "true"]}
            ELSE IF cands # {}
                THEN {[mem |-> Relocate(m, b, a, new_size),
                       blocks |-> others \cup
                            {[b EXCEPT !.base = a, !.size = new_size]},
                       res |-> "true"] : a \in cands}
            ELSE {[mem |-> m, blocks |-> bl, res |-> "false"]}

\* -------------------------------------------------------------- handlers
\* Each handler maps the memory, the block table and its arguments to the
\* set of outcomes the call can have (one per placement the heap may pick).

\* stub_return_void returning a value
stub_return_zero(m, bl) == {Outcome(m, bl, RetSome(0), <<>>, NoHeapCall)}

stub_return_void(m, bl) == {Outcome(m, bl, RetNone, <<>>, NoHeapCall)}

new_handle(m, bl, size) ==
    {Outcome(o.mem, o.blocks, RetSome(o.val), <<>>, NoHeapCall) :
        o \in heap_new_handle(m, bl, size)}

new_ptr(m, bl, size) ==
    {Outcome(o.mem, o.blocks, RetSome(o.val), <<>>, NoHeapCall) :
        o \in heap_new_ptr(m, bl, size)}

dispose_ptr(m, bl, ptr) ==
    LET o == heap_dispose_ptr(bl, ptr)
    IN  {Outcome(m, o.blocks, IF o.st = "err" THEN RetHeapErr ELSE RetNone,
                 <<>>, NoHeapCall)}

get_ptr_size(m, bl, ptr) ==
    LET o == heap_get_ptr_size(bl, ptr)
    IN  {Outcome(m, bl, IF o.st = "err" THEN RetHeapErr ELSE RetSome(o.val),
                 <<>>, NoHeapCall)}

set_ptr_size(m, bl, ptr, new_size) ==
    {Outcome(o.mem, o.blocks,
             IF o.res = "err" THEN RetHeapErr ELSE RetNone,
             <<>>, [res |-> o.res, req |-> new_size]) :
        o \in heap_set_ptr_size(m, bl, ptr, new_size)}

dispose_handle(m, bl, handle) ==
    LET o == heap_dispose_handle(bl, handle)
    IN  {Outcome(m, o.blocks, IF o.st = "err" THEN RetHeapErr ELSE RetNone,
                 <<>>, NoHeapCall)}

get_handle_size(m, bl, handle) ==
    LET o == heap_get_handle_size(bl, handle)
    IN  {Outcome(m, bl, IF o.st = "err" THEN RetHeapErr ELSE RetSome(o.val),
                 <<>>, NoHeapCall)}

set_handle_size(m, bl, handle, new_size) ==
    {Outcome(o.mem, o.blocks,
             IF o.res = "err" THEN RetHeapErr ELSE RetNone,
             <<>>, [res |-> o.res, req |-> new_size]) :
        o \in heap_set_handle_size(m, bl, handle, new_size)}

h_get_state(m, bl) == {Outcome(m, bl, RetSome(0), <<>>, NoHeapCall)}

\* the branch of ptr_and_hand taken when set_handle_size returned true
ptr_and_hand_then(m, bl, ptr, handle, size, current_size, hc, chk) ==
    LET cell == read_u32(m, handle)
        lg == << <<"r", handle>> >>
    IN  IF chk /\ Carry32(cell, current_size)
            THEN Outcome(m, bl, RetPanic, lg, hc)
        ELSE
            LET dest == Add32(cell, current_size)
                c == CopyUp(m, lg, ptr, dest, size, 0, chk)
            IN  Outcome(c.mem, bl, CopyRet(c.st, RetSome(0)), c.log, hc)

\* the else branch of ptr_and_hand reporting success
ptr_and_hand_else_zero(m, bl, hc) == Outcome(m, bl, RetSome(0), <<>>, hc)

\* the branch of ptr_and_hand taken when set_handle_size returned false
ptr_and_hand_else(m, bl, hc) ==
    Outcome(m, bl, RetSome(NotEnoughMemory), <<>>, hc)

ptr_and_hand(m, bl, ptr, handle, size, chk) ==
    LET g == heap_get_handle_size(bl, handle)
        current_size == g.val
    IN  IF g.st = "err" THEN {Outcome(m, bl, RetHeapErr, <<>>, NoHeapCall)}
        ELSE IF chk /\ Carry32(current_size, size)
            THEN {Outcome(m, bl, RetPanic, <<>>, NoHeapCall)}
        ELSE
            LET req == Add32(current_size, size)
            IN  {IF o.res = "true"
                    THEN ptr_and_hand_then(o.mem, o.blocks, ptr, handle, size,
                                           current_size,
                                           [res |-> o.res, req |-> req], chk)
                 ELSE IF o.res = "false"
                    THEN ptr_and_hand_else(o.mem, o.blocks,
                                           [res |-> o.res, req |-> req])
                 ELSE Outcome(o.mem, o.blocks, RetHeapErr, <<>>,
                              [res |-> o.res, req |-> req]) :
                    o \in heap_set_handle_size(m, bl, handle, req)}

\* ------------------------------------------------------------- dispatch
ShimNames ==
    {"NewHandle", "NewHandleClear", "NewPtr", "NewPtrClear", "HLock",
     "HUnlock", "HLockHi", "MoveHHi", "DisposePtr", "GetPtrSize",
     "SetPtrSize", "DisposeHandle", "GetHandleSize", "SetHandleSize",
     "BlockMoveData", "HGetState", "HSetState", "PtrAndHand"}

\* install_shims with NewHandleClear and NewPtrClear bound to each other's
\* allocator
install_shims_swapped ==
    [n \in ShimNames |->
        CASE n = "NewHandle" -> "new_handle"
          [] n = "NewHandleClear" -> "new_ptr"
          [] n = "NewPtr" -> "new_ptr"
          [] n = "NewPtrClear" -> "new_handle"
          [] n \in {"HLock", "HUnlock", "HLockHi", "MoveHHi", "HSetState"}
                -> "stub_return_void"
          [] n = "DisposePtr" -> "dispose_ptr"
          [] n = "GetPtrSize" -> "get_ptr_size"
          [] n = "SetPtrSize" -> "set_ptr_size"
          [] n = "DisposeHandle" -> "dispose_handle"
          [] n = "GetHandleSize" -> "get_handle_size"
          [] n = "SetHandleSize" -> "set_handle_size"
          [] n = "BlockMoveData" -> "block_move_data"
          [] n = "HGetState" -> "h_get_state"
          [] n = "PtrAndHand" -> "ptr_and_hand"]

\* the table install_shims builds: API name -> handler
install_shims ==
    [n \in ShimNames |->
        CASE n = "NewHandle" -> "new_handle"
          [] n = "NewHandleClear" -> "new_handle"
          [] n = "NewPtr" -> "new_ptr"
          [] n = "NewPtrClear" -> "new_ptr"
          [] n \in {"HLock", "HUnlock", "HLockHi", "MoveHHi", "HSetState"}
                -> "stub_return_void"
          [] n = "DisposePtr" -> "dispose_ptr"
          [] n = "GetPtrSize" -> "get_ptr_size"
          [] n = "SetPtrSize" -> "set_ptr_size"
          [] n = "DisposeHandle" -> "dispose_handle"
          [] n = "GetHandleSize" -> "get_handle_size"
          [] n = "SetHandleSize" -> "set_handle_size"
          [] n = "BlockMoveData" -> "block_move_data"
          [] n = "HGetState" -> "h_get_state"
          [] n = "PtrAndHand" -> "ptr_and_hand"]

\* the handler bound to `name`, run on arguments a, b, c (a handler reads
\* as many as its arity)
Invoke(name, m, bl, a, b, c, chk) ==
    LET h == install_shims[name]
    IN  CASE h = "stub_return_void" -> stub_return_void(m, bl)
          [] h = "new_handle" -> new_handle(m, bl, a)
          [] h = "new_ptr" -> new_ptr(m, bl, a)
          [] h = "dispose_ptr" -> dispose_ptr(m, bl, a)
          [] h = "get_ptr_size" -> get_ptr_size(m, bl, a)
          [] h = "set_ptr_size" -> set_ptr_size(m, bl, a, b)
          [] h = "dispose_handle" -> dispose_handle(m, bl, a)
          [] h = "get_handle_size" -> get_handle_size(m, bl, a)
          [] h = "set_handle_size" -> set_handle_size(m, bl, a, b)
          [] h = "block_move_data" -> block_move_data(m, bl, a, b, c, chk)
          [] h = "h_get_state" -> h_get_state(m, bl)
          [] h = "ptr_and_hand" -> ptr_and_hand(m, bl, a, b, c, chk)

\* ------------------------------------------------------ argument ranges
AllocSizes == {2, 5}

ResizeSizes == {0, 3, 5, MemSize}

HandleArgs == Handles(blocks) \cup {0}

PtrArgs == Ptrs(blocks) \cup {0}

CopyAddrs == {0, 10, MemSize - 2}

CopyLens == {0, 3, 20}

\* sources of an append: low memory, the last mapped byte, the handle's
\* own cell, and the last byte of a movable block
AppendPtrs ==
    {0, MemSize - 1} \cup Handles(blocks)
        \cup {b.base + b.size - 1 :
                b \in {x \in blocks : x.kind = "Movable" /\ x.size > 0}}

\* -1 is 2^32 - 1
AppendSizes == {0, 2, 5, MemSize, -1}

\* ---------------------------------------------------------------- state
Init ==
    /\ mem = [a \in Addrs |-> a]
    /\ blocks = {}
    /\ checked \in BOOLEAN
    /\ nops = 0
    /\ call = [name |-> "", a |-> 0, b |-> 0, c |-> 0]
    /\ ret = RetNone
    /\ log = <<>>
    /\ pre = [mem |-> [a \in Addrs |-> a], blocks |-> {}]
    /\ heapcall = NoHeapCall

\* one trapped call: the guest calls `name` with arguments a, b, c and the
\* handler runs to completion
Trap(name, a, b, c) ==
    /\ nops < MaxOps
    /\ \E o \in Invoke(name, mem, blocks, a, b, c, checked) :
        /\ mem' = o.mem
        /\ blocks' = o.blocks
        /\ ret' = o.ret
        /\ log' = o.log
        /\ heapcall' = o.heapcall
    /\ pre' = [mem |-> mem, blocks |-> blocks]
    /\ call' = [name |-> name, a |-> a, b |-> b, c |-> c]
    /\ nops' = nops + 1
    /\ UNCHANGED checked

NewHandle == \E size \in AllocSizes : Trap("NewHandle", size, 0, 0)

NewHandleClear == \E size \in AllocSizes : Trap("NewHandleClear", size, 0, 0)

NewPtr == \E size \in AllocSizes : Trap("NewPtr", size, 0, 0)

NewPtrClear == \E size \in AllocSizes : Trap("NewPtrClear", size, 0, 0)

HLock == \E h \in HandleArgs : Trap("HLock", h, 0, 0)

HUnlock == \E h \in HandleArgs : Trap("HUnlock", h, 0, 0)

HLockHi == \E h \in HandleArgs : Trap("HLockHi", h, 0, 0)

MoveHHi == \E h \in HandleArgs : Trap("MoveHHi", h, 0, 0)

HSetState == \E h \in HandleArgs : Trap("HSetState", h, 0, 0)

HGetState == \E h \in HandleArgs : Trap("HGetState", h, 0, 0)

DisposePtr == \E p \in PtrArgs : Trap("DisposePtr", p, 0, 0)

GetPtrSize == \E p \in PtrArgs : Trap("GetPtrSize", p, 0, 0)

SetPtrSize ==
    \E p \in PtrArgs, n \in ResizeSizes : Trap("SetPtrSize", p, n, 0)

DisposeHandle == \E h \in HandleArgs : Trap("DisposeHandle", h, 0, 0)

GetHandleSize == \E h \in HandleArgs : Trap("GetHandleSize", h, 0, 0)

SetHandleSize ==
    \E h \in HandleArgs, n \in ResizeSizes : Trap("SetHandleSize", h, n, 0)

BlockMoveData ==
    \E src \in CopyAddrs, dest \in CopyAddrs, len \in CopyLens :
        Trap("BlockMoveData", src, dest, len)

PtrAndHand ==
    \E ptr \in AppendPtrs, h \in HandleArgs, n \in AppendSizes :
        Trap("PtrAndHand", ptr, h, n)

Next ==
    \/ NewHandle
    \/ NewHandleClear
    \/ NewPtr
    \/ NewPtrClear
    \/ HLock
    \/ HUnlock
    \/ HLockHi
    \/ MoveHHi
    \/ HSetState
    \/ HGetState
    \/ DisposePtr
    \/ GetPtrSize
    \/ SetPtrSize
    \/ DisposeHandle
    \/ GetHandleSize
    \/ SetHandleSize
    \/ BlockMoveData
    \/ PtrAndHand

Spec == Init /\ [][Next]_vars

\* ----------------------------------------------------------------------
\* Properties.  `call` is the last trapped call (a, b, c its arguments in
\* the order the handler reads them), `pre` the memory and block table it
\* started from, `log` the guest accesses the handler itself made.

\* the byte at a, or -1 where no byte is mapped
ByteAt(m, a) == IF InRange(a) THEN m[a] ELSE -1

IsWrite(e) == e[1] = "w"

Writes(lg) == SelectSeq(lg, IsWrite)

StateUnchanged == mem = pre.mem /\ blocks = pre.blocks

\* C1: after block_move_data(src, dest, length) returns, every byte dest+i,
\* i in [0, length), equals the byte src+i held before the call, whether or
\* not the two ranges overlap.
C1_BlockMoveCopiesSource ==
    (call.name = "BlockMoveData" /\ ret = RetNone) =>
        \A i \in 0 .. (call.c - 1) :
            ByteAt(mem, call.b + i) = ByteAt(pre.mem, call.a + i)

\* C2: when ptr_and_hand(ptr, handle, n) is called on a live handle of size
\* s and set_handle_size(handle, s+n) succeeds, the call returns 0, the
\* handle's size is s+n, bytes [s, s+n) of the block at the base stored in
\* the Master Pointer Cell are the n bytes that were at ptr, and bytes
\* [0, s) are unchanged.
C2_AppendCopiesBytes ==
    LET hb == HandleBlocks(pre.blocks, call.b)
    IN  (/\ call.name = "PtrAndHand"
         /\ hb # {}
         /\ heapcall.res = "true"
         /\ ~Carry32((CHOOSE x \in hb : TRUE).size, call.c)) =>
            LET old == CHOOSE x \in hb : TRUE
                s == old.size
                n == call.c
                base == read_u32(mem, call.b)
            IN  /\ ret = RetSome(0)
                /\ HandleBlocks(blocks, call.b) # {}
                /\ \A x \in HandleBlocks(blocks, call.b) : x.size = s + n
                /\ \A i \in 0 .. (n - 1) :
                        ByteAt(mem, base + s + i) = ByteAt(pre.mem, call.a + i)
                /\ \A i \in 0 .. (s - 1) :
                        ByteAt(mem, base + i) = ByteAt(pre.mem, old.base + i)

\* C3: when set_handle_size returns false inside ptr_and_hand, the handler
\* writes no byte of guest memory, the handle's size and contents are as
\* before the call, and the nonzero not-enough-memory status is returned.
C3_FailedAppendChangesNothing ==
    (call.name = "PtrAndHand" /\ heapcall.res = "false") =>
        /\ Writes(log) = <<>>
        /\ StateUnchanged
        /\ ret = RetSome(NotEnoughMemory)
        /\ ret.val # 0

C3_Witness ==
    /\ call.name = "PtrAndHand"
    /\ heapcall.res = "false"
    /\ call.c = 5
    /\ call.b \in Handles(blocks)
    /\ ret = RetSome(NotEnoughMemory)

\* C4: when SetHandleSize or SetPtrSize cannot be satisfied, the handler
\* gives the guest a value that signals failure and differs from what it
\* gives on success.
C4_ResizeFailureReported ==
    (call.name \in {"SetHandleSize", "SetPtrSize"} /\ heapcall.res = "false") =>
        ret.kind = "Some" /\ ret # RetNone

\* C5: if a guest memory access faults inside block_move_data or inside
\* ptr_and_hand's copy loop, all guest memory and the handle's recorded
\* size are as before the call.
C5_FaultLeavesStateUnchanged ==
    (call.name \in {"BlockMoveData", "PtrAndHand"} /\ ret = RetFault) =>
        StateUnchanged

\* C6: block_move_data with length 0 or with src = dest reads and writes no
\* guest memory, leaves memory and heap unchanged and returns no value.
C6_NoOpCopy ==
    (call.name = "BlockMoveData" /\ (call.c = 0 \/ call.a = call.b)) =>
        /\ log = <<>>
        /\ StateUnchanged
        /\ ret = RetNone

C6_Witness ==
    /\ call.name = "BlockMoveData"
    /\ call.a = call.b
    /\ call.c = 20
    /\ nops = MaxOps
    /\ ret = RetNone

\* C7: HLock, HUnlock, HLockHi, MoveHHi and HSetState change neither the
\* block table nor any guest memory and return no value, whatever the
\* state and the argument; HGetState changes nothing and returns 0.
C7_StubsChangeNothing ==
    /\ call.name \in {"HLock", "HUnlock", "HLockHi", "MoveHHi", "HSetState"} =>
            StateUnchanged /\ log = <<>> /\ ret = RetNone
    /\ call.name = "HGetState" =>
            StateUnchanged /\ log = <<>> /\ ret = RetSome(0)

C7_Witness ==
    /\ call.name = "HSetState"
    /\ call.a \in Handles(blocks)
    /\ ret = RetNone

\* C8: block_move_data writes the destination in ascending order when
\* dest < src and in descending order when dest > src, so that every
\* source byte is read before the write that overwrites it.
C8_TraversalOrder ==
    (call.name = "BlockMoveData" /\ ret = RetNone) =>
        LET w == Writes(log)
        IN  /\ ULt(call.b, call.a) =>
                    /\ Len(w) = call.c
                    /\ \A k \in 1 .. Len(w) : w[k][2] = call.b + (k - 1)
            /\ ULt(call.a, call.b) =>
                    /\ Len(w) = call.c
                    /\ \A k \in 1 .. Len(w) : w[k][2] = call.b + (call.c - k)
            /\ \A j \in 1 .. Len(log) : \A k \in 1 .. Len(log) :
                    (j < k /\ log[j][1] = "w" /\ log[k][1] = "r") =>
                        log[j][2] # log[k][2]

\* C9: for every live handle of size s and every 32-bit n, also when
\* s + n exceeds 2^32 - 1, ptr_and_hand does not abort, asks
\* set_handle_size for the true sum s + n and never for the sum modulo
\* 2^32, and when it returns 0 the handle's size is s + n and no byte
\* outside the handle's block was written.  (A propagated guest memory
\* fault is not counted as an abort here.)
C9_AppendSizeIsTrueSum ==
    LET hb == HandleBlocks(pre.blocks, call.b)
    IN  (call.name = "PtrAndHand" /\ hb # {}) =>
            LET s == (CHOOSE x \in hb : TRUE).size
                n == call.c
                now == HandleBlocks(blocks, call.b)
            IN  /\ ret.kind # "Panic"
                /\ ~Carry32(s, n)
                /\ heapcall.req = Add32(s, n)
                /\ ret = RetSome(0) =>
                    /\ now # {}
                    /\ \A x \in now :
                        /\ x.size = s + n
                        /\ \A k \in 1 .. Len(Writes(log)) :
                                Writes(log)[k][2] \in
                                    x.base .. (x.base + x.size - 1)

\* C10: NewHandleClear is bound to the handler of NewHandle and NewPtrClear
\* to the handler of NewPtr: from the same state and size the Clear call
\* has an outcome of the plain call, and the handler itself writes no byte
\* of guest memory (it does not zero-fill the new block).
C10_ClearVariantsAreTheAllocators ==
    /\ call.name = "NewHandleClear" =>
        /\ Outcome(mem, blocks, ret, log, heapcall)
                \in Invoke("NewHandle", pre.mem, pre.blocks,
                           call.a, call.b, call.c, checked)
        /\ Writes(log) = <<>>
    /\ call.name = "NewPtrClear" =>
        /\ Outcome(mem, blocks, ret, log, heapcall)
                \in Invoke("NewPtr", pre.mem, pre.blocks,
                           call.a, call.b, call.c, checked)
        /\ Writes(log) = <<>>

C10_Witness ==
    /\ call.name = "NewHandleClear"
    /\ ret.kind = "Some"
    /\ ret.val \in Handles(blocks)
    /\ ret.val \notin Handles(pre.blocks)

====
